---- MODULE Spec2Model ----
(***************************************************************************)
(* Model of the Proxy Verifier replay client                               *)
(* (src/local/src/client/verifier-client.cc).                              *)
(*                                                                         *)
(* Loader domain: one ClientReplayFileHandler per replay file, driven by   *)
(* Load_Replay_File, all sharing LoadMutex, the string localization table  *)
(* and Session_List.  Replay domain: Engine::command_run dispatching the   *)
(* sessions of Session_List to the TF_Client worker threads of             *)
(* Client_Thread_Pool.                                                     *)
(***************************************************************************)
EXTENDS Integers, Sequences, FiniteSets, TLC

\* ------------------------------------------------------------------ bounds
NumFiles == 2       \* replay files, one loader task and handler each
MaxSsn == 2         \* session nodes read over the whole directory
NumWorkers == 2     \* threads the pool may create
MaxFail == 1        \* worker acquisitions that may fail in one run
MaxProto == 3       \* entries of a session's protocol sequence

Files == 1..NumFiles
Workers == 1..NumWorkers

NoOne == 0          \* LoadMutex is free
NULL == 0           \* nullptr

\* ------------------------------------------------------------ input nodes
\* A request section of a transaction node is absent, or present with the
\* key make_key derives from it.
Absent == "absent"
BlankKey == ""

\* Transaction nodes: which of the four sections exist, and whether an
\* all-messages directive is given.
TxnK1 == [creq |-> "k1", preq |-> "k1", prsp |-> TRUE, srsp |-> TRUE, all |-> FALSE]
TxnK2 == [creq |-> "k2", preq |-> "k2", prsp |-> TRUE, srsp |-> TRUE, all |-> TRUE]
TxnNoRsp == [creq |-> "k1", preq |-> "k1", prsp |-> FALSE, srsp |-> TRUE, all |-> FALSE]

\* Session nodes: the protocol sequence, the client SNI under the tls key
\* ("" when there is none), the start time in nanoseconds and the
\* transaction nodes.
SsnNodes ==
    { [protocol |-> <<"http">>, sni |-> "", start |-> 5000,
       txns |-> <<TxnNoRsp, TxnK1, TxnK2>>],
      [protocol |-> <<"h2", "tls">>, sni |-> "A.com", start |-> 1000,
       txns |-> <<TxnK2>>] }

\* Entries of a protocol sequence: h2-prefixed, tls-prefixed, neither.
ProtoEntries == {"h2", "H2", "tls", "TLS", "http"}

\* Session nodes with every protocol sequence of up to MaxProto entries, with
\* and without a client SNI under the tls key, and no transaction.
ScanNodes ==
    { [protocol |-> p, sni |-> sni, start |-> 0, txns |-> <<>>] :
        p \in UNION {[1..n -> ProtoEntries] : n \in 0..MaxProto},
        sni \in {"", "A.com"} }

\* The command lines tried: --no-proxy, --keys.
CommandLines ==
    { [no_proxy |-> FALSE, keys |-> {}],
      [no_proxy |-> FALSE, keys |-> {"k1"}],
      [no_proxy |-> TRUE,  keys |-> {"k2"}] }

\* The endpoints the two upstream arguments resolve to: one each.
OneTarget == <<"http0">>
OneTargetHttps == <<"https0">>

\* Session nodes for the sort and the pacing: starts of 5, 1, 1 and 0
\* microseconds, the two that tie differing in protocol and transactions.
TimedNodes ==
    { [protocol |-> <<"http">>, sni |-> "", start |-> 5000,
       txns |-> <<TxnK1, TxnK2>>],
      [protocol |-> <<"h2", "tls">>, sni |-> "A.com", start |-> 1000,
       txns |-> <<TxnK2>>],
      [protocol |-> <<"http">>, sni |-> "", start |-> 1000,
       txns |-> <<TxnK1>>],
      [protocol |-> <<"tls">>, sni |-> "", start |-> 0,
       txns |-> <<TxnK1, TxnK1, TxnK2>>] }

\* Session nodes with every combination of the two classification flags,
\* each with one transaction that both run modes load.
RunNodes ==
    { [protocol |-> <<"http">>, sni |-> "", start |-> 1000, txns |-> <<TxnK1>>],
      [protocol |-> <<"tls">>, sni |-> "A.com", start |-> 2000,
       txns |-> <<TxnK1>>],
      [protocol |-> <<"h2">>, sni |-> "", start |-> 3000, txns |-> <<TxnK1>>],
      [protocol |-> <<"h2", "tls">>, sni |-> "B.com", start |-> 4000,
       txns |-> <<TxnK1>>] }

\* Upstreams that resolve to two and to three endpoints.
TwoTargets == <<"http0", "http1">>
ThreeTargetsHttps == <<"https0", "https1", "https2">>

\* A directory for the pacing: the sessions that start at 5 and 1
\* microseconds, in this order of discovery.
TimedSeq ==
    << [protocol |-> <<"http">>, sni |-> "", start |-> 5000,
        txns |-> <<TxnK1, TxnK2>>],
       [protocol |-> <<"h2", "tls">>, sni |-> "A.com", start |-> 1000,
        txns |-> <<TxnK2>>] >>

\* Microseconds between pacing steps tried for the pacing.
PaceDelays == {0, 1, 5}

\* The --rate and --sleep-limit arguments tried.
RateArgs == {<<>>, <<0>>, <<250000>>, <<750000>>}
SleepLimitArgs == {<<>>, <<3>>}

\* The --repeat values tried.
Repeats == {1, 2}

\* Microseconds that pass between the end of one pacing step and the clock
\* reads of the next.
Delays == {1}

\* ------------------------------------------------------------------ state
VARIABLES
    Use_Proxy_Request_Directives, \* --no-proxy was given
    Keys_Whitelist,               \* --keys
    repeat_count,                 \* --repeat
    LoadMutex,                    \* owner of LoadMutex, NoOne when free
    Session_List,                 \* the registry, a sequence of sessions
    names,                        \* HttpHeader's localized strings
    frozen,                       \* HttpHeader::_frozen
    h_pc,                         \* per file: where Load_Replay_File stands
    h_ssn,                        \* per file: handler._ssn
    h_txn,                        \* per file: handler._txn
    h_node,                       \* per file: the session node being read
    h_k,                          \* per file: transaction nodes of it read
    ssn_read,                     \* session nodes read so far
    access,                       \* last write to shared loader state
    bad_unlock,                   \* LoadMutex.unlock() was called by a non-owner
    m_pc,                         \* where Engine::command_run stands
    status_code,                  \* Engine::status_code
    Shutdown_Flag,
    rep,                          \* command_run's i, repetitions completed
    idx,                          \* position of the session loop in Session_List
    thread_info,                  \* command_run's thread_info, NULL or a worker
    n_ssn,                        \* command_run's n_ssn
    fails,                        \* worker acquisitions that failed
    transaction_count,            \* command_run's transaction_count
    rate_multiplier,              \* command_run's rate_multiplier, a fraction
    sleep_limit,                  \* command_run's sleep_limit
    now,                          \* the system clock, in microseconds
    firsttime,                    \* command_run's firsttime
    curtime,                      \* command_run's curtime
    nexttime,                     \* command_run's nexttime
    slept,                        \* microseconds passed to the last usleep, or 0
    pool,                         \* Client_Thread_Pool's idle workers, in order
    w_pc,                         \* per worker: where TF_Client stands
    w_ssn,                        \* per worker: its ClientThreadInfo::_ssn
    todo,                         \* per worker: session assigned, not yet run
    n_ran,                        \* calls of Run_Session so far
    Target,                       \* the endpoints resolved for plain sessions
    Target_Https,                 \* the endpoints resolved for TLS sessions
    target_index,                 \* per worker: TF_Client's target_index
    target_https_index,           \* per worker: TF_Client's target_https_index
    w_run,                        \* per worker: what its Run_Session is doing
    n_http,                       \* Run_Session calls that connected to Target
    n_https                       \* Run_Session calls that connected to Target_Https

loaderVars == <<LoadMutex, Session_List, names, h_pc, h_ssn, h_txn, h_node,
                h_k, ssn_read, access, bad_unlock>>
configVars == <<Use_Proxy_Request_Directives, Keys_Whitelist, repeat_count,
                Target, Target_Https>>
paceVars == <<transaction_count, rate_multiplier, sleep_limit, now, firsttime,
              curtime, nexttime, slept>>
mainVars == <<m_pc, status_code, Shutdown_Flag, rep, idx, thread_info, n_ssn,
              fails, paceVars>>
runVars == <<target_index, target_https_index, w_run, n_http, n_https>>
workerVars == <<pool, w_pc, w_ssn, todo, n_ran, runVars>>
replayVars == <<mainVars, workerVars>>
vars == <<configVars, loaderVars, frozen, replayVars>>

\* ------------------------------------------------- ClientReplayFileHandler
\* A Txn as the handler sees it: the key of the loaded request (BlankKey while
\* none is loaded), whether a response is loaded, whether the response rules
\* were copied from global_config.txn_rules, whether all-messages rules were
\* merged, and whether the txn_open that began it passed validation.
NewTxn ==
    [req |-> BlankKey, rsp |-> FALSE, rules |-> FALSE, merged |-> FALSE,
     opened |-> FALSE]

\* handler._ssn == nullptr
NoSsn == [transactions |-> <<>>]

NoNode == [txns |-> <<>>]

\* new Ssn().  The path and line of a session only label diagnostics and are
\* left out; a session is identified by its place in Session_List.
NewSsn ==
    [is_h2 |-> FALSE, is_tls |-> FALSE, client_sni |-> "", start |-> 0,
     transactions |-> <<>>]

\* TextView::starts_with_nocase against "h2" and "tls".
IsH2Entry(e) == e \in {"h2", "H2", "h2c"}
IsTlsEntry(e) == e \in {"tls", "TLS", "tls/1.2"}

\* HttpHeader::localize_lower: the stored string is the lower-cased one.
localize_lower(s) ==
    CASE s = "A.com" -> "a.com"
      [] s = "B.com" -> "b.com"
      [] OTHER -> s

\* A scan that goes on after a tls entry.
RECURSIVE ScanProtocolNoBreak(_, _, _, _)
ScanProtocolNoBreak(ssn, protocol, sni, i) ==
    IF i > Len(protocol) THEN ssn
    ELSE LET s1 == IF IsH2Entry(protocol[i]) THEN [ssn EXCEPT !.is_h2 = TRUE]
                   ELSE ssn
             s2 == IF IsTlsEntry(protocol[i])
                   THEN [s1 EXCEPT !.is_tls = TRUE,
                                   !.client_sni = IF sni # ""
                                                  THEN localize_lower(sni)
                                                  ELSE @]
                   ELSE s1
         IN  ScanProtocolNoBreak(s2, protocol, sni, i + 1)

\* The scan of the protocol sequence in ssn_open: an h2 entry sets is_h2, a
\* tls entry sets is_tls, takes the client SNI and ends the scan.
RECURSIVE ScanProtocol(_, _, _, _)
ScanProtocol(ssn, protocol, sni, i) ==
    IF i > Len(protocol) THEN ssn
    ELSE LET s1 == IF IsH2Entry(protocol[i]) THEN [ssn EXCEPT !.is_h2 = TRUE]
                   ELSE ssn
         IN  IF IsTlsEntry(protocol[i])
             THEN [s1 EXCEPT !.is_tls = TRUE,
                             !.client_sni = IF sni # "" THEN localize_lower(sni)
                                            ELSE @]
             ELSE ScanProtocol(s1, protocol, sni, i + 1)

\* Whether that scan localizes the client SNI, a write to the string table.
RECURSIVE ScanLocalizes(_, _, _)
ScanLocalizes(protocol, sni, i) ==
    IF i > Len(protocol) THEN FALSE
    ELSE IF IsTlsEntry(protocol[i]) THEN sni # ""
    ELSE ScanLocalizes(protocol, sni, i + 1)

\* swoc::svtou then the nanosecond to microsecond conversion of ssn_open.
StartOf(ns) == IF ns # 0 THEN ns \div 1000 ELSE 0

\* The validation at the head of txn_open.
ValidationOk(node) == node.creq # Absent /\ node.prsp

\* client_request then proxy_request, for the sections the node has.
LoadRequest(txn, node) ==
    LET t1 == IF node.creq # Absent /\ ~Use_Proxy_Request_Directives
              THEN [txn EXCEPT !.req = node.creq] ELSE txn
    IN  IF node.preq # Absent /\ Use_Proxy_Request_Directives
        THEN [t1 EXCEPT !.req = node.preq] ELSE t1

\* proxy_response then server_response, for the sections the node has.
LoadResponse(txn, node) ==
    LET t1 == IF node.prsp /\ ~Use_Proxy_Request_Directives
              THEN [txn EXCEPT !.rsp = TRUE, !.rules = TRUE] ELSE txn
    IN  IF node.srsp /\ Use_Proxy_Request_Directives
        THEN [t1 EXCEPT !.rsp = TRUE, !.rules = TRUE] ELSE t1

apply_to_all_messages(txn) == [txn EXCEPT !.merged = TRUE]

\* HttpMessage::make_key of the working request.
make_key(txn) == txn.req

\* The working transaction after the load calls and apply_to_all_messages
\* that Load_Replay_File makes for a transaction node.
Populated(txn, node) ==
    LET t1 == LoadResponse(LoadRequest(txn, node), node)
    IN  IF node.all THEN apply_to_all_messages(t1) ELSE t1

\* A test that treats an empty --keys list as allowing nothing.
KeyListed(key) == key \in Keys_Whitelist

\* The test of txn_close that decides whether the transaction is attached.
KeyAllowed(key) == Keys_Whitelist = {} \/ key \in Keys_Whitelist

\* _ssn->_transactions after txn_close: the working transaction is moved in
\* when its key is allowed.
Attached(transactions, txn) ==
    IF KeyAllowed(make_key(txn)) THEN Append(transactions, txn)
    ELSE transactions

\* An ssn_close that registers every session.
RegistersAlways(ssn) == TRUE

\* The test of ssn_close that decides whether the session is registered.
Registers(ssn) == ssn.transactions # <<>>

\* A write to shared loader state by handler h, with whether h holds LoadMutex.
Write(h, obj) == [by |-> h, obj |-> obj, held |-> LoadMutex = h]

NoWrite == [by |-> NoOne, obj |-> "none", held |-> TRUE]

\* The transaction node txn_open is about to be called with.
NextTxnNode(h) == h_node[h].txns[h_k[h] + 1]

MoreTxns(h) == h_k[h] < Len(h_node[h].txns)

\* ssn_open: a new Ssn, classified, with its start time.  The client SNI is
\* localized here, which no lock covers: when another handler is inside its
\* locked span the insert races with that handler's and may be lost.
ssn_open(h, node) ==
    /\ h_pc[h] = "ssn_open"
    /\ ssn_read < MaxSsn
    /\ ssn_read' = ssn_read + 1
    /\ h_ssn' = [h_ssn EXCEPT ![h] =
           [ScanProtocol(NewSsn, node.protocol, node.sni, 1)
              EXCEPT !.start = StartOf(node.start)]]
    /\ IF ScanLocalizes(node.protocol, node.sni, 1)
       THEN /\ access' = Write(h, "names")
            /\ \/ names' = names \cup {localize_lower(node.sni)}
               \/ /\ LoadMutex \notin {NoOne, h}
                  /\ names' = names
       ELSE UNCHANGED <<access, names>>
    /\ h_node' = [h_node EXCEPT ![h] = node]
    /\ h_k' = [h_k EXCEPT ![h] = 0]
    /\ h_pc' = [h_pc EXCEPT ![h] = "txn_open"]
    /\ UNCHANGED <<LoadMutex, Session_List, h_txn, bad_unlock>>

\* A txn_open that takes LoadMutex with a scoped guard, released on return.
TxnOpenScopedLock(h) == NoOne

\* The owner of LoadMutex when txn_open returns success: LoadMutex.lock()
\* with no unlock on that path.
TxnOpenLock(h) == h

\* txn_open on a node that passes validation: LoadMutex.lock().
txn_open(h) ==
    /\ h_pc[h] = "txn_open"
    /\ MoreTxns(h)
    /\ ValidationOk(NextTxnNode(h))
    /\ LoadMutex = NoOne
    /\ LoadMutex' = TxnOpenLock(h)
    /\ h_txn' = [h_txn EXCEPT ![h].opened = TRUE]
    /\ h_k' = [h_k EXCEPT ![h] = @ + 1]
    /\ h_pc' = [h_pc EXCEPT ![h] = "populate"]
    /\ UNCHANGED <<Session_List, names, h_ssn, h_node, ssn_read, access,
                   bad_unlock>>

\* txn_open on a node that fails validation: it returns the errors, the mutex
\* untouched.  The loader goes on to the next transaction node.
txn_open_invalid(h) ==
    /\ h_pc[h] = "txn_open"
    /\ MoreTxns(h)
    /\ ~ValidationOk(NextTxnNode(h))
    /\ h_k' = [h_k EXCEPT ![h] = @ + 1]
    /\ UNCHANGED <<LoadMutex, Session_List, names, h_pc, h_ssn, h_txn, h_node,
                   ssn_read, access, bad_unlock>>

\* The same, for a loader that calls txn_close for every txn_open it made.
txn_open_invalid_then_close(h) ==
    /\ h_pc[h] = "txn_open"
    /\ MoreTxns(h)
    /\ ~ValidationOk(NextTxnNode(h))
    /\ h_k' = [h_k EXCEPT ![h] = @ + 1]
    /\ h_pc' = [h_pc EXCEPT ![h] = "txn_close"]
    /\ UNCHANGED <<LoadMutex, Session_List, names, h_ssn, h_txn, h_node,
                   ssn_read, access, bad_unlock>>

\* The request and response loads and apply_to_all_messages of one
\* transaction: they localize field names and copy the shared rules.
populate(h) ==
    /\ h_pc[h] = "populate"
    /\ h_txn' = [h_txn EXCEPT ![h] = Populated(@, h_node[h].txns[h_k[h]])]
    /\ names' = names \cup {"host"}
    /\ access' = Write(h, "names")
    /\ h_pc' = [h_pc EXCEPT ![h] = "txn_close"]
    /\ UNCHANGED <<LoadMutex, Session_List, h_ssn, h_node, h_k, ssn_read,
                   bad_unlock>>

\* LoadMutex.unlock() by h.  Unlocking a std::mutex the caller does not own
\* is undefined: the mutex ends up free or is left as it was.
Unlock(h) ==
    IF LoadMutex = h
    THEN LoadMutex' = NoOne /\ UNCHANGED bad_unlock
    ELSE LoadMutex' \in {NoOne, LoadMutex} /\ bad_unlock' = TRUE

\* txn_close: attach the working transaction if its key is allowed, reset
\* the working transaction, unlock.
txn_close(h) ==
    /\ h_pc[h] = "txn_close"
    /\ h_ssn' = [h_ssn EXCEPT ![h].transactions = Attached(@, h_txn[h])]
    /\ h_txn' = [h_txn EXCEPT ![h] = NewTxn]
    /\ Unlock(h)
    /\ h_pc' = [h_pc EXCEPT ![h] = "txn_open"]
    /\ UNCHANGED <<Session_List, names, h_node, h_k, ssn_read, access>>

\* ssn_close, first half: the lock_guard takes LoadMutex.
ssn_close_lock(h) ==
    /\ h_pc[h] = "txn_open"
    /\ ~MoreTxns(h)
    /\ LoadMutex = NoOne
    /\ LoadMutex' = h
    /\ h_pc' = [h_pc EXCEPT ![h] = "ssn_close"]
    /\ UNCHANGED <<Session_List, names, h_ssn, h_txn, h_node, h_k, ssn_read,
                   access, bad_unlock>>

\* ssn_close, second half: register a non-empty session, leave the guarded
\* block, ssn_reset.
ssn_close(h) ==
    /\ h_pc[h] = "ssn_close"
    /\ IF Registers(h_ssn[h])
       THEN /\ Session_List' = Append(Session_List, h_ssn[h])
            /\ access' = Write(h, "Session_List")
       ELSE UNCHANGED <<Session_List, access>>
    /\ Unlock(h)
    /\ h_ssn' = [h_ssn EXCEPT ![h] = NoSsn]
    /\ h_node' = [h_node EXCEPT ![h] = NoNode]
    /\ h_k' = [h_k EXCEPT ![h] = 0]
    /\ h_pc' = [h_pc EXCEPT ![h] = "ssn_open"]
    /\ UNCHANGED <<names, h_txn, ssn_read>>

\* Load_Replay_File returns: no session node is left in the file.
file_done(h) ==
    /\ h_pc[h] = "ssn_open"
    /\ h_pc' = [h_pc EXCEPT ![h] = "done"]
    /\ UNCHANGED <<LoadMutex, Session_List, names, h_ssn, h_txn, h_node, h_k,
                   ssn_read, access, bad_unlock>>

\* ------------------------------------------------------- Engine::command_run
\* A rate multiplier is kept as the fraction the code divides out.
Zero == [num |-> 0, den |-> 1]

\* std::list::sort with session_start_compare: a stable sort, ascending start.
session_start_compare(ssn1, ssn2) == ssn1.start < ssn2.start

RECURSIVE InsertSorted(_, _)
InsertSorted(sorted, ssn) ==
    IF sorted = <<>> THEN <<ssn>>
    ELSE IF session_start_compare(ssn, Head(sorted))
         THEN <<ssn>> \o sorted
         ELSE <<Head(sorted)>> \o InsertSorted(Tail(sorted), ssn)

\* A sort that leaves the list as it is.
NoSort(list) == list

RECURSIVE SortSessions(_)
SortSessions(list) ==
    IF list = <<>> THEN <<>>
    ELSE InsertSorted(SortSessions(SubSeq(list, 1, Len(list) - 1)),
                      list[Len(list)])

\* The offset loop: every start less the start of the front session.
Normalize(list) ==
    LET offset_time == IF list # <<>> THEN list[1].start ELSE 0
    IN  [k \in 1..Len(list) |-> [list[k] EXCEPT !.start = @ - offset_time]]

\* An argument's values arguments.get() returns: <<>> when the option was
\* not given, else one value, kept as the integer atoi makes of it.
atoi(arg) == arg[1]

\* The sum the offset loop accumulates in transaction_count.
RECURSIVE TransactionCount(_)
TransactionCount(list) ==
    IF list = <<>> THEN 0
    ELSE Len(Head(list).transactions) + TransactionCount(Tail(list))

\* rate_multiplier for the sorted and normalized list: the quotient of
\* transaction_count * 1000000.0 and target * Session_List.back()->_start,
\* with nothing done about a divisor of 0.
RateMultiplier(rate_arg, list, count) ==
    IF Len(rate_arg) = 1 /\ list # <<>>
    THEN IF atoi(rate_arg) = 0 THEN Zero
         ELSE [num |-> count * 1000000,
               den |-> atoi(rate_arg) * list[Len(list)].start]
    ELSE Zero

SleepLimit(sleep_limit_arg) ==
    IF Len(sleep_limit_arg) = 1 THEN atoi(sleep_limit_arg) ELSE 500000

\* What the conversion to uint64_t of a value that is not finite may give:
\* the conversion is undefined, the result is 0 or a huge number.
CastOutcomes == {0, 1000000000}

\* (uint64_t)(rate_multiplier * ssn->_start): the product cut to an
\* integer.  A divisor of 0 made the multiplier infinite, the product is
\* infinite or not a number.
FloatToU64(rm, start) ==
    IF rm.den = 0 THEN CastOutcomes ELSE {(rm.num * start) \div rm.den}

Min(a, b) == IF a < b THEN a ELSE b

\* A pacing that waits until the scheduled time whatever the limit.
SleepUntil(next, cur, limit) == IF next > cur THEN next - cur ELSE 0

\* The argument of usleep for a session scheduled at next when the clock
\* reads cur, 0 when usleep is not called.
SleepFor(next, cur, limit) == IF next > cur THEN Min(limit, next - cur) ELSE 0

AllLoaded == \A h \in Files : h_pc[h] = "done"

\* The checks before the load: too few arguments or an upstream that does not
\* resolve end the run with status 1.
setup_fail ==
    /\ m_pc = "setup"
    /\ status_code' = 1
    /\ m_pc' = "exit"
    /\ UNCHANGED <<configVars, loaderVars, frozen, Shutdown_Flag, rep, idx,
                   thread_info, n_ssn, fails, workerVars,
                   paceVars>>

\* --no-proxy and --keys are read, then Load_Replay_Directory starts the
\* loader tasks.
setup(cmd) ==
    /\ m_pc = "setup"
    /\ Use_Proxy_Request_Directives' = cmd.no_proxy
    /\ Keys_Whitelist' = cmd.keys
    /\ Target' = OneTarget
    /\ Target_Https' = OneTargetHttps
    /\ m_pc' = "load"
    /\ UNCHANGED <<repeat_count, loaderVars, frozen, status_code, Shutdown_Flag,
                   rep, idx, thread_info, n_ssn, fails, workerVars,
                   paceVars>>

\* Load_Replay_Directory returned an error: status 1, nothing is replayed.
load_fail ==
    /\ m_pc = "load"
    /\ AllLoaded
    /\ status_code' = 1
    /\ m_pc' = "exit"
    /\ UNCHANGED <<configVars, loaderVars, frozen, Shutdown_Flag, rep, idx,
                   thread_info, n_ssn, fails, workerVars,
                   paceVars>>

\* A command_run that leaves HttpHeader::_frozen as it was.
FreezeForgotten == FALSE

\* The value written to HttpHeader::_frozen after the sort.
FreezeValue == TRUE

\* Where the session loops stand once the session at position k of repetition
\* r has been handled: the next session, the next repetition, or the end.
NextPosition(r, k) ==
    IF k < Len(Session_List) THEN [rep |-> r, idx |-> k + 1, pc |-> "pace"]
    ELSE IF r + 1 < repeat_count
         THEN [rep |-> r + 1, idx |-> 1, pc |-> "pace"]
         ELSE [rep |-> r + 1, idx |-> 1, pc |-> "shutdown"]

\* Load_Replay_Directory returned without error, every loader task joined:
\* sort Session_List, freeze the string table, normalize the start times and
\* count the transactions, read --rate, --repeat and --sleep-limit and enter
\* the repetition loop.
sort_and_freeze_with(rate_arg, repeat, sleep_limit_arg) ==
    /\ m_pc = "load"
    /\ AllLoaded
    /\ LET sorted == Normalize(SortSessions(Session_List))
       IN  /\ Session_List' = sorted
           /\ transaction_count' = TransactionCount(sorted)
           /\ rate_multiplier' =
                  RateMultiplier(rate_arg, sorted, TransactionCount(sorted))
    /\ sleep_limit' = SleepLimit(sleep_limit_arg)
    /\ frozen' = FreezeValue
    /\ repeat_count' = repeat
    /\ rep' = IF Session_List # <<>> THEN 0 ELSE repeat
    /\ idx' = 1
    /\ m_pc' = IF Session_List # <<>> /\ repeat > 0 THEN "pace" ELSE "shutdown"
    /\ access' = NoWrite
    /\ UNCHANGED <<Use_Proxy_Request_Directives, Keys_Whitelist, Target,
                   Target_Https, LoadMutex, names, h_pc, h_ssn, h_txn, h_node,
                   h_k, ssn_read, bad_unlock, status_code, Shutdown_Flag,
                   thread_info, n_ssn, fails, workerVars, now, firsttime,
                   curtime, nexttime, slept>>

\* The same with neither --rate nor --sleep-limit given.
sort_and_freeze(repeat) == sort_and_freeze_with(<<>>, repeat, <<>>)

\* A loop that takes its baseline once, before the first repetition.
BaselineOnce(t) == IF idx = 1 /\ rep = 0 THEN t ELSE firsttime

\* firsttime while the session at idx is paced: read from the clock, which
\* shows t, at the start of every repetition.
Baseline(t) == IF idx = 1 THEN t ELSE firsttime

\* The head of the session loop, d microseconds after the last step: at the
\* start of a repetition firsttime is read; curtime is read, nexttime is
\* computed, and usleep is called when nexttime is ahead of curtime; the
\* clock has moved on by the sleep when lasttime is read.
pace(d) ==
    /\ m_pc = "pace"
    /\ LET t == now + d
           first == Baseline(t)
       IN  /\ firsttime' = first
           /\ curtime' = t
           /\ \E u \in FloatToU64(rate_multiplier, Session_List[idx].start) :
                 /\ nexttime' = u + first
                 /\ slept' = SleepFor(u + first, t, sleep_limit)
                 /\ now' = t + SleepFor(u + first, t, sleep_limit)
    /\ m_pc' = "get_worker"
    /\ UNCHANGED <<configVars, loaderVars, frozen, status_code, Shutdown_Flag,
                   rep, idx, thread_info, n_ssn, fails, workerVars,
                   transaction_count, rate_multiplier, sleep_limit>>

Born == {w \in Workers : w_pc[w] # "unborn"}

\* ThreadPool::get_worker with no idle worker and room for another thread:
\* make_thread starts TF_Client, and get_worker waits for it to enter the pool.
make_thread ==
    /\ m_pc = "get_worker"
    /\ pool = <<>>
    /\ Born # Workers
    /\ LET w == CHOOSE x \in Workers \ Born : \A y \in Workers \ Born : x <= y
       IN  w_pc' = [w_pc EXCEPT ![w] = "top"]
    /\ UNCHANGED <<configVars, loaderVars, frozen, mainVars, pool, w_ssn,
                   todo, n_ran,
                   runVars>>

\* ThreadPool::get_worker: the front idle worker leaves the pool.
get_worker ==
    /\ m_pc = "get_worker"
    /\ pool # <<>>
    /\ thread_info' = Head(pool)
    /\ pool' = Tail(pool)
    /\ m_pc' = "assign"
    /\ UNCHANGED <<configVars, loaderVars, frozen, status_code, Shutdown_Flag,
                   rep, idx, n_ssn, fails, w_pc, w_ssn, todo, n_ran,
                   paceVars,
                   runVars>>

\* get_worker yields nothing the dynamic_cast accepts.
get_worker_null ==
    /\ m_pc = "get_worker"
    /\ fails < MaxFail
    /\ thread_info' = NULL
    /\ m_pc' = "assign"
    /\ UNCHANGED <<configVars, loaderVars, frozen, status_code, Shutdown_Flag,
                   rep, idx, n_ssn, fails, workerVars,
                   paceVars>>

\* What command_run does with status_code and the session loops when
\* thread_info is nullptr: the error is noted, the loops go on.
AfterNoWorker(r, k) == [status |-> status_code, next |-> NextPosition(r, k)]

\* The body of the session loop after get_worker: the session is handed to
\* the worker under the worker's mutex, or the failure is noted; n_ssn counts.
assign ==
    /\ m_pc = "assign"
    /\ IF thread_info = NULL
       THEN /\ status_code' = AfterNoWorker(rep, idx).status
            /\ rep' = AfterNoWorker(rep, idx).next.rep
            /\ idx' = AfterNoWorker(rep, idx).next.idx
            /\ m_pc' = AfterNoWorker(rep, idx).next.pc
            /\ fails' = fails + 1
            /\ UNCHANGED <<w_ssn, todo>>
       ELSE /\ w_ssn' = [w_ssn EXCEPT ![thread_info] = idx]
            /\ todo' = [todo EXCEPT ![thread_info] = idx]
            /\ rep' = NextPosition(rep, idx).rep
            /\ idx' = NextPosition(rep, idx).idx
            /\ m_pc' = NextPosition(rep, idx).pc
            /\ UNCHANGED <<status_code, fails>>
    /\ n_ssn' = n_ssn + 1
    /\ thread_info' = NULL
    /\ UNCHANGED <<configVars, loaderVars, frozen, Shutdown_Flag, pool, w_pc,
                   n_ran,
                   paceVars,
                   runVars>>

\* Shutdown_Flag = true.
shutdown ==
    /\ m_pc = "shutdown"
    /\ Shutdown_Flag' = TRUE
    /\ m_pc' = "join"
    /\ UNCHANGED <<configVars, loaderVars, frozen, status_code, rep, idx,
                   thread_info, n_ssn, fails, workerVars,
                   paceVars>>

\* join_threads returns once every thread made has left TF_Client; the
\* report follows and command_run returns.
join_threads ==
    /\ m_pc = "join"
    /\ \A w \in Born : w_pc[w] = "exit"
    /\ m_pc' = "done"
    /\ UNCHANGED <<configVars, loaderVars, frozen, status_code, Shutdown_Flag,
                   rep, idx, thread_info, n_ssn, fails, workerVars,
                   paceVars>>

\* ------------------------------------------------------------------ TF_Client
\* A data_ready that looks at the pending session only.
data_ready_no_shutdown(w) == w_ssn[w] # NULL

\* ClientThreadInfo::data_ready.
data_ready(w) == Shutdown_Flag \/ w_ssn[w] # NULL

\* The loop condition of TF_Client.
LoopTest == ~Shutdown_Flag

\* A TF_Client that does not reset thread_info._ssn.
SlotKept(w) == w_ssn[w]

\* What TF_Client stores in thread_info._ssn before it waits for work.
SlotOnEnter(w) == NULL

\* A TF_Client that drops the pending session once Shutdown_Flag is set.
HasSessionUnlessShutdown(w) == w_ssn[w] # NULL /\ ~Shutdown_Flag

\* The test of TF_Client that decides whether Run_Session is called.
HasSession(w) == w_ssn[w] # NULL

\* ----------------------------------------------------------------- Run_Session
\* No Run_Session call yet.
NoRun ==
    [ssn |-> NULL, runner |-> "none", list |-> "none", index |-> 0, nth |-> 0,
     sni |-> "", connected |-> FALSE, ran |-> FALSE]

\* A Run_Session that skips no session.
NeverSkips == FALSE

\* The test under which Run_Session ignores an HTTP/2 session.
SkipsH2 == Use_Proxy_Request_Directives

\* Run_Session for the session at position k of Session_List, with the
\* targets at index ti of Target and thi of Target_Https: the session made
\* (H2Session, TLSSession with the client SNI, or Session), the target it
\* connects to, and run_transactions called when do_connect succeeded (ok).
\* nth counts the earlier calls that used the same target list.
Run_Session(k, ti, thi, ok) ==
    LET ssn == Session_List[k]
    IN  IF ssn.is_h2
        THEN IF SkipsH2
             THEN [NoRun EXCEPT !.ssn = k, !.runner = "skip"]
             ELSE [ssn |-> k, runner |-> "h2", list |-> "https", index |-> thi,
                   nth |-> n_https, sni |-> "", connected |-> ok, ran |-> ok]
        ELSE IF ssn.is_tls
             THEN [ssn |-> k, runner |-> "tls", list |-> "https", index |-> thi,
                   nth |-> n_https, sni |-> ssn.client_sni, connected |-> ok,
                   ran |-> ok]
             ELSE [ssn |-> k, runner |-> "plain", list |-> "http", index |-> ti,
                   nth |-> n_http, sni |-> "", connected |-> ok, ran |-> ok]

\* ++index, back to 0 at the size of the list.
Advance(index, size) == IF index + 1 >= size THEN 0 ELSE index + 1

\* The outcomes of do_connect tried in the whole program: it succeeds.
Connects == {TRUE}

w_top(w) ==
    /\ w_pc[w] = "top"
    /\ w_pc' = [w_pc EXCEPT ![w] = IF LoopTest THEN "enter" ELSE "exit"]
    /\ UNCHANGED <<configVars, loaderVars, frozen, mainVars, pool, w_ssn,
                   todo, n_ran,
                   runVars>>

\* thread_info._ssn = nullptr, then the first half of wait_for_work: the
\* worker enters the pool and the pool's condition is signalled.
w_enter(w) ==
    /\ w_pc[w] = "enter"
    /\ w_ssn' = [w_ssn EXCEPT ![w] = SlotOnEnter(w)]
    /\ pool' = Append(pool, w)
    /\ w_pc' = [w_pc EXCEPT ![w] = "wait"]
    /\ UNCHANGED <<configVars, loaderVars, frozen, mainVars, todo, n_ran,
                   runVars>>

\* The second half of wait_for_work returns once data_ready(); a pending
\* session is then passed to Run_Session, whose do_connect succeeds or not.
w_wake(w, ok) ==
    /\ w_pc[w] = "wait"
    /\ data_ready(w)
    /\ IF HasSession(w)
       THEN LET run == Run_Session(w_ssn[w], target_index[w],
                                   target_https_index[w], ok)
            IN  /\ n_ran' = n_ran + 1
                /\ todo' = [todo EXCEPT ![w] = IF @ = w_ssn[w] THEN NULL ELSE @]
                /\ w_run' = [w_run EXCEPT ![w] = run]
                /\ n_http' = IF run.list = "http" THEN n_http + 1 ELSE n_http
                /\ n_https' = IF run.list = "https" THEN n_https + 1 ELSE n_https
                /\ w_pc' = [w_pc EXCEPT ![w] = "run"]
       ELSE /\ w_pc' = [w_pc EXCEPT ![w] = "top"]
            /\ UNCHANGED <<todo, n_ran, w_run, n_http, n_https>>
    /\ UNCHANGED <<configVars, loaderVars, frozen, mainVars, pool, w_ssn,
                   target_index, target_https_index>>

\* Run_Session returns, its session object is gone; both target indices
\* advance.
w_done(w) ==
    /\ w_pc[w] = "run"
    /\ w_run' = [w_run EXCEPT ![w] = NoRun]
    /\ target_index' = [target_index EXCEPT ![w] = Advance(@, Len(Target))]
    /\ target_https_index' =
           [target_https_index EXCEPT ![w] = Advance(@, Len(Target_Https))]
    /\ w_pc' = [w_pc EXCEPT ![w] = "top"]
    /\ UNCHANGED <<configVars, loaderVars, frozen, mainVars, pool, w_ssn,
                   todo, n_ran, n_http, n_https>>

\* The state of the worker threads before any is made.
WorkersInit ==
    /\ pool = <<>>
    /\ w_pc = [w \in Workers |-> "unborn"]
    /\ w_ssn = [w \in Workers |-> NULL]
    /\ todo = [w \in Workers |-> NULL]
    /\ n_ran = 0
    /\ target_index = [w \in Workers |-> 0]
    /\ target_https_index = [w \in Workers |-> 0]
    /\ w_run = [w \in Workers |-> NoRun]
    /\ n_http = 0
    /\ n_https = 0

\* ---------------------------------------------------------- specification
\* The timing state of command_run before the load has returned.
TimingInit ==
    /\ transaction_count = 0
    /\ rate_multiplier = Zero
    /\ sleep_limit = 500000
    /\ now = 0
    /\ firsttime = 0
    /\ curtime = 0
    /\ nexttime = 0
    /\ slept = 0

Init ==
    /\ Use_Proxy_Request_Directives = FALSE
    /\ Keys_Whitelist = {}
    /\ repeat_count = 0
    /\ Target = <<>>
    /\ Target_Https = <<>>
    /\ LoadMutex = NoOne
    /\ Session_List = <<>>
    /\ names = {}
    /\ frozen = FALSE
    /\ h_pc = [h \in Files |-> "ssn_open"]
    /\ h_ssn = [h \in Files |-> NoSsn]
    /\ h_txn = [h \in Files |-> NewTxn]
    /\ h_node = [h \in Files |-> NoNode]
    /\ h_k = [h \in Files |-> 0]
    /\ ssn_read = 0
    /\ access = NoWrite
    /\ bad_unlock = FALSE
    /\ m_pc = "setup"
    /\ status_code = 0
    /\ Shutdown_Flag = FALSE
    /\ rep = 0
    /\ idx = 1
    /\ thread_info = NULL
    /\ n_ssn = 0
    /\ fails = 0
    /\ WorkersInit
    /\ TimingInit

\* One step of the loader task of file h, as Load_Replay_File drives it.
Loader(h) ==
    /\ m_pc = "load"
    /\ UNCHANGED <<configVars, frozen, replayVars>>
    /\ \/ \E node \in SsnNodes : ssn_open(h, node)
       \/ txn_open(h)
       \/ txn_open_invalid(h)
       \/ populate(h)
       \/ txn_close(h)
       \/ ssn_close_lock(h)
       \/ ssn_close(h)
       \/ file_done(h)

\* command_run up to the call of Load_Replay_Directory.
Setup ==
    \/ setup_fail
    \/ \E cmd \in CommandLines : setup(cmd)

\* command_run from the return of Load_Replay_Directory on.
Replay ==
    \/ load_fail
    \/ \E repeat \in Repeats : sort_and_freeze(repeat)
    \/ \E d \in Delays : pace(d)
    \/ make_thread
    \/ get_worker
    \/ get_worker_null
    \/ assign
    \/ shutdown
    \/ join_threads

Main == Setup \/ Replay

Worker(w) ==
    \/ w_top(w)
    \/ w_enter(w)
    \/ \E ok \in Connects : w_wake(w, ok)
    \/ w_done(w)

Next ==
    \/ \E h \in Files : Loader(h)
    \/ Main
    \/ \E w \in Workers : Worker(w)

Spec == Init /\ [][Next]_vars

\* The scheduling the threads get: the main thread and every worker thread
\* keep running while they can take a step.
Fairness == WF_vars(Main) /\ \A w \in Workers : WF_vars(Worker(w))

FairSpec == Spec /\ Fairness

\* The replay domain on its own: the run from the return of
\* Load_Replay_Directory, for a directory whose one file holds n copies of a
\* session node and an empty --keys list.
RECURSIVE LoadedTransactions(_, _)
LoadedTransactions(txns, k) ==
    IF k = 0 THEN <<>>
    ELSE IF ValidationOk(txns[k])
         THEN Attached(LoadedTransactions(txns, k - 1),
                       Populated([NewTxn EXCEPT !.opened = TRUE], txns[k]))
         ELSE LoadedTransactions(txns, k - 1)

LoadedSession(node) ==
    [ScanProtocol(NewSsn, node.protocol, node.sni, 1)
       EXCEPT !.start = StartOf(node.start),
              !.transactions = LoadedTransactions(node.txns, Len(node.txns))]

ReplayInit ==
    /\ Use_Proxy_Request_Directives = FALSE
    /\ Keys_Whitelist = {}
    /\ repeat_count = 0
    /\ Target = OneTarget
    /\ Target_Https = OneTargetHttps
    /\ LoadMutex = NoOne
    /\ \E n \in 0..MaxSsn, node \in SsnNodes :
          /\ Session_List = [k \in 1..n |-> LoadedSession(node)]
          /\ names = IF n = 0 THEN {}
                     ELSE {"host"} \cup
                          (IF ScanLocalizes(node.protocol, node.sni, 1)
                           THEN {localize_lower(node.sni)} ELSE {})
          /\ ssn_read = n
          /\ access = IF n = 0 THEN NoWrite
                      ELSE [by |-> 1, obj |-> "Session_List", held |-> TRUE]
    /\ frozen = FALSE
    /\ h_pc = [h \in Files |-> "done"]
    /\ h_ssn = [h \in Files |-> NoSsn]
    /\ h_txn = [h \in Files |-> NewTxn]
    /\ h_node = [h \in Files |-> NoNode]
    /\ h_k = [h \in Files |-> 0]
    /\ bad_unlock = FALSE
    /\ m_pc = "load"
    /\ status_code = 0
    /\ Shutdown_Flag = FALSE
    /\ rep = 0
    /\ idx = 1
    /\ thread_info = NULL
    /\ n_ssn = 0
    /\ fails = 0
    /\ WorkersInit
    /\ TimingInit

ReplayNext == Replay \/ \E w \in Workers : Worker(w)

ReplayFairness == WF_vars(Replay) /\ \A w \in Workers : WF_vars(Worker(w))

ReplayFairSpec == ReplayInit /\ [][ReplayNext]_vars /\ ReplayFairness

\* The state in which Load_Replay_Directory returns for a directory whose
\* one file holds the session nodes of the sequence nodes, every one of
\* which registers, with no --keys, --no-proxy given or not and the
\* upstreams resolved to the given endpoints.
LoadedWith(no_proxy, http, https, nodes) ==
    /\ Use_Proxy_Request_Directives = no_proxy
    /\ Keys_Whitelist = {}
    /\ repeat_count = 0
    /\ Target = http
    /\ Target_Https = https
    /\ LoadMutex = NoOne
    /\ Session_List = [k \in 1..Len(nodes) |-> LoadedSession(nodes[k])]
    /\ names = IF nodes = <<>> THEN {}
               ELSE {"host"} \cup
                    {localize_lower(nodes[k].sni) :
                       k \in {j \in 1..Len(nodes) :
                                ScanLocalizes(nodes[j].protocol, nodes[j].sni, 1)}}
    /\ ssn_read = Len(nodes)
    /\ access = IF nodes = <<>> THEN NoWrite
                ELSE [by |-> 1, obj |-> "Session_List", held |-> TRUE]
    /\ frozen = FALSE
    /\ h_pc = [h \in Files |-> "done"]
    /\ h_ssn = [h \in Files |-> NoSsn]
    /\ h_txn = [h \in Files |-> NewTxn]
    /\ h_node = [h \in Files |-> NoNode]
    /\ h_k = [h \in Files |-> 0]
    /\ bad_unlock = FALSE
    /\ m_pc = "load"
    /\ status_code = 0
    /\ Shutdown_Flag = FALSE
    /\ rep = 0
    /\ idx = 1
    /\ thread_info = NULL
    /\ n_ssn = 0
    /\ fails = 0
    /\ WorkersInit
    /\ TimingInit

\* The same without --no-proxy and with one endpoint for each upstream.
Loaded(nodes) == LoadedWith(FALSE, OneTarget, OneTargetHttps, nodes)

\* The sort, the normalization and the reading of the rate on their own,
\* for every directory of up to MaxSsn of the TimedNodes.
PrepareInit ==
    \E nodes \in UNION {[1..n -> TimedNodes] : n \in 0..MaxSsn} : Loaded(nodes)

PrepareNext ==
    \/ load_fail
    \/ \E rate_arg \in RateArgs, repeat \in Repeats,
          sleep_limit_arg \in SleepLimitArgs :
            sort_and_freeze_with(rate_arg, repeat, sleep_limit_arg)

PrepareSpec == PrepareInit /\ [][PrepareNext]_vars

\* The pacing on its own: the run from the return of Load_Replay_Directory
\* for a directory of the first session or both sessions of TimedSeq, with every --rate and
\* --sleep-limit tried, a clock that moves on by any of PaceDelays between
\* pacing steps, and a get_worker that always yields a worker.
PaceInit == \E n \in 1..Len(TimedSeq) : Loaded(SubSeq(TimedSeq, 1, n))

PaceMain ==
    \/ \E rate_arg \in RateArgs, repeat \in Repeats,
          sleep_limit_arg \in SleepLimitArgs :
            sort_and_freeze_with(rate_arg, repeat, sleep_limit_arg)
    \/ \E d \in PaceDelays : pace(d)
    \/ make_thread
    \/ get_worker
    \/ assign
    \/ shutdown
    \/ join_threads

PaceNext == PaceMain \/ \E w \in Workers : Worker(w)

PaceSpec == PaceInit /\ [][PaceNext]_vars

\* The running of sessions on its own: the run from the return of
\* Load_Replay_Directory for a directory of one or two of the RunNodes, in
\* both run modes, with two plain and three TLS endpoints and a do_connect
\* that succeeds or fails.
RunInit ==
    \E no_proxy \in BOOLEAN, nodes \in [1..1 -> RunNodes] \cup [1..2 -> RunNodes] :
        LoadedWith(no_proxy, TwoTargets, ThreeTargetsHttps, nodes)

RunWorker(w) ==
    \/ w_top(w)
    \/ w_enter(w)
    \/ \E ok \in BOOLEAN : w_wake(w, ok)
    \/ w_done(w)

RunNext == Replay \/ \E w \in Workers : RunWorker(w)

RunSpec == RunInit /\ [][RunNext]_vars

\* Session classification on its own: one file is left to load, and its
\* session nodes are drawn from ScanNodes.
ClassifyInit ==
    /\ Use_Proxy_Request_Directives = FALSE
    /\ Keys_Whitelist = {}
    /\ repeat_count = 0
    /\ Target = OneTarget
    /\ Target_Https = OneTargetHttps
    /\ LoadMutex = NoOne
    /\ Session_List = <<>>
    /\ names = {}
    /\ frozen = FALSE
    /\ h_pc = [h \in Files |-> IF h = 1 THEN "ssn_open" ELSE "done"]
    /\ h_ssn = [h \in Files |-> NoSsn]
    /\ h_txn = [h \in Files |-> NewTxn]
    /\ h_node = [h \in Files |-> NoNode]
    /\ h_k = [h \in Files |-> 0]
    /\ ssn_read = 0
    /\ access = NoWrite
    /\ bad_unlock = FALSE
    /\ m_pc = "load"
    /\ status_code = 0
    /\ Shutdown_Flag = FALSE
    /\ rep = 0
    /\ idx = 1
    /\ thread_info = NULL
    /\ n_ssn = 0
    /\ fails = 0
    /\ WorkersInit
    /\ TimingInit

Classify(h) ==
    /\ m_pc = "load"
    /\ UNCHANGED <<configVars, frozen, replayVars>>
    /\ \/ \E node \in ScanNodes : ssn_open(h, node)
       \/ ssn_close_lock(h)
       \/ ssn_close(h)
       \/ file_done(h)

ClassifyNext == \E h \in Files : Classify(h)

ClassifySpec == ClassifyInit /\ [][ClassifyNext]_vars

\* The handlers under a loader that pairs every txn_open with a txn_close,
\* whatever txn_open returned.
CloseAlways(h) ==
    /\ m_pc = "load"
    /\ UNCHANGED <<configVars, frozen, replayVars>>
    /\ txn_open_invalid_then_close(h)

CloseAlwaysNext == Next \/ \E h \in Files : CloseAlways(h)

CloseAlwaysSpec == Init /\ [][CloseAlwaysNext]_vars

\* ------------------------------------------------------------------ claims
Range(seq) == {seq[k] : k \in 1..Len(seq)}

InSpan(h) == h_pc[h] \in {"populate", "txn_close"}

C2_NoForeignRelease == ~bad_unlock

AllTransactions ==
    UNION ({Range(h_ssn[h].transactions) : h \in Files}
           \cup {Range(Session_List[k].transactions) :
                   k \in 1..Len(Session_List)})

\* C3: a transaction whose txn_open failed validation is never attached to
\* a session, also when txn_close is called for it.
C3_FailedNeverAttached == \A t \in AllTransactions : t.opened

\* C4: every session in Session_List has at least one transaction.
C4_NoEmptySessionRegistered ==
    \A k \in 1..Len(Session_List) : Session_List[k].transactions # <<>>

\* The run is over, sessions were replayed, and some session that was read
\* did not enter the registry.
C4_Witness ==
    /\ m_pc = "done"
    /\ n_ran > 0
    /\ ssn_read > Len(Session_List)

Dispatching ==
    \/ m_pc \in {"pace", "get_worker", "assign"}
    \/ n_ssn > 0
    \/ thread_info # NULL
    \/ \E w \in Workers : w_ssn[w] # NULL

\* C5: the string table is frozen once, after every loader task has ended
\* and before the first dispatch; no loader step and no write to the table
\* follows the freeze, and nothing is dispatched before it.
C5_FreezeBoundary ==
    /\ [](frozen => AllLoaded /\ m_pc \notin {"setup", "load"})
    /\ [](Dispatching => frozen)
    /\ [][frozen => frozen' /\ UNCHANGED loaderVars]_vars
    /\ [][frozen' # frozen => AllLoaded /\ n_ssn = 0]_vars

\* Strings were localized while loading, the table is frozen, and a session
\* has been dispatched.
C5_Witness == frozen /\ names # {} /\ n_ssn > 0

\* C6: every write to the string table, the shared rules or Session_List in
\* the loader domain is made by a handler that holds LoadMutex.
C6_WritesUnderLock == access.held

Pending == {w \in Workers : todo[w] # NULL}

\* C7: every session assigned to a worker is run once, by that worker, also
\* the one assigned just before Shutdown_Flag is set; a worker that has left
\* its loop leaves nothing assigned behind, and command_run ends only after
\* every worker has returned from its last Run_Session.
C7_AssignedRunOnce ==
    /\ n_ran + Cardinality(Pending) = n_ssn - fails
    /\ \A w \in Workers :
          /\ todo[w] # NULL => w_ssn[w] = todo[w] /\ w_pc[w] = "wait"
          /\ w_pc[w] = "run" => w_ssn[w] # NULL /\ todo[w] = NULL
    /\ m_pc = "done" =>
          /\ \A w \in Workers : w_pc[w] \in {"unborn", "exit"}
          /\ n_ran = n_ssn - fails

\* Shutdown_Flag is set while a worker still waits with the session it was
\* just given, and another worker is inside Run_Session.
C7_Witness ==
    /\ Shutdown_Flag
    /\ \E w1, w2 \in Workers :
          /\ w_pc[w1] = "wait" /\ todo[w1] # NULL
          /\ w_pc[w2] = "run"

\* C8: a worker's pending-session slot is written only by the scheduler,
\* for the idle worker it took out of the pool, and cleared only by the
\* worker while it is outside the pool with nothing pending; so a pending
\* session is never overwritten or cleared before it has run.
C8_SingleAssignment ==
    /\ [](\A w \in Range(pool) :
             ~Shutdown_Flag => w_pc[w] = "wait" /\ w_ssn[w] = NULL)
    /\ [](thread_info # NULL =>
             /\ thread_info \notin Range(pool)
             /\ w_pc[thread_info] = "wait"
             /\ w_ssn[thread_info] = NULL)
    /\ [][\A w \in Workers :
             w_ssn'[w] # w_ssn[w] =>
                 /\ todo[w] = NULL
                 /\ w \notin Range(pool)
                 /\ IF w_ssn'[w] # NULL
                    THEN thread_info = w /\ w_ssn[w] = NULL
                    ELSE w_pc[w] = "enter"]_vars

\* The only worker made so far has run a session, went back to the pool and
\* is taken out of it again.
C8_Witness ==
    /\ thread_info # NULL
    /\ Cardinality(Born) = 1
    /\ n_ran > 0

\* C9: once Shutdown_Flag is set, which happens only after the last
\* repetition was dispatched, every worker leaves its loop, join_threads
\* returns and the report is reached.
C9_ShutdownTerminates ==
    /\ [](Shutdown_Flag => rep = repeat_count)
    /\ Shutdown_Flag ~> (m_pc = "done" /\ \A w \in Born : w_pc[w] = "exit")

\* Shutdown_Flag is set while one worker is inside Run_Session and another
\* waits in the pool with nothing pending.
C9_Witness ==
    /\ Shutdown_Flag
    /\ \E w1, w2 \in Workers :
          /\ w_pc[w1] = "run"
          /\ w_pc[w2] = "wait" /\ w_ssn[w2] = NULL

\* C10: when no worker could be acquired for a session the run is aborted:
\* nothing more is dispatched and the exit status is not zero.
C10_NoWorkerIsFatal ==
    fails > 0 => status_code # 0 /\ m_pc \notin {"pace", "get_worker", "assign"}

\* Whether handler h has a session open.
HasOpenSession(h) == h_pc[h] \in {"txn_open", "populate", "txn_close", "ssn_close"}

\* The position of the first tls-prefixed entry, past the end when none is.
FirstTls(protocol) ==
    LET at == {i \in 1..Len(protocol) : IsTlsEntry(protocol[i])}
    IN  IF at = {} THEN Len(protocol) + 1
        ELSE CHOOSE i \in at : \A j \in at : i <= j

\* C15: ssn_open classifies by scanning the protocol sequence in order:
\* is_tls iff a tls-prefixed entry occurs, is_h2 iff an h2-prefixed entry
\* occurs before the first tls-prefixed entry (anywhere when there is none),
\* and the client SNI is taken iff a tls-prefixed entry occurs and the node
\* has one.
C15_ScanOrder ==
    \A h \in Files :
        HasOpenSession(h) =>
            LET protocol == h_node[h].protocol
                first == FirstTls(protocol)
            IN  /\ h_ssn[h].is_tls = (first <= Len(protocol))
                /\ h_ssn[h].is_h2 =
                       (\E i \in 1..Len(protocol) :
                           i <= first /\ IsH2Entry(protocol[i]))
                /\ h_ssn[h].client_sni =
                       IF first <= Len(protocol) /\ h_node[h].sni # ""
                       THEN localize_lower(h_node[h].sni) ELSE ""
                /\ protocol = <<"h2", "tls">> =>
                       h_ssn[h].is_h2 /\ h_ssn[h].is_tls
                /\ protocol = <<"tls", "h2">> =>
                       h_ssn[h].is_tls /\ ~h_ssn[h].is_h2

\* A session was opened on the sequence tls, h2 with a client SNI: it is TLS
\* with the SNI taken and not HTTP2.
C15_Witness ==
    \E h \in Files :
        /\ HasOpenSession(h)
        /\ h_node[h].protocol = <<"tls", "h2">>
        /\ h_node[h].sni = "A.com"
        /\ h_ssn[h].is_tls
        /\ ~h_ssn[h].is_h2
        /\ h_ssn[h].client_sni = "a.com"

\* The sections of a transaction node that the active run mode loads.
ModeSections(node) ==
    IF Use_Proxy_Request_Directives
    THEN node.preq # Absent /\ node.srsp
    ELSE node.creq # Absent /\ node.prsp

\* C12: txn_open passes validation, and takes LoadMutex, exactly when the
\* node has the request and the expected-response section of the active run
\* mode: client-request and proxy-response with a proxy, proxy-request and
\* server-response with --no-proxy.
C12_ValidationByMode ==
    [][\A h \in Files :
          (h_pc[h] = "txn_open" /\ h_k'[h] = h_k[h] + 1) =>
              ((h_pc'[h] = "populate" /\ LoadMutex' = h)
                  <=> ModeSections(NextTxnNode(h)))]_vars

\* C16: txn_close moves the populated transaction into the session iff
\* Keys_Whitelist is empty or holds the key of the transaction's request,
\* and drops it otherwise; either way the working transaction is fresh and
\* LoadMutex, held until then, is free afterwards.
C16_CloseFilters ==
    [][\A h \in Files :
          (h_pc[h] = "txn_close" /\ h_pc'[h] = "txn_open") =>
              /\ h_ssn'[h].transactions =
                     IF Keys_Whitelist = {} \/ h_txn[h].req \in Keys_Whitelist
                     THEN Append(h_ssn[h].transactions, h_txn[h])
                     ELSE h_ssn[h].transactions
              /\ h_txn[h].opened /\ h_txn[h].rsp
              /\ h_txn'[h] = NewTxn
              /\ LoadMutex = h
              /\ LoadMutex' = NoOne]_vars

\* With a non-empty --keys list a handler has closed two populated
\* transactions of a session, kept one and dropped the other.
C16_Witness ==
    \E h \in Files :
        /\ h_pc[h] = "txn_open"
        /\ Keys_Whitelist # {}
        /\ h_k[h] = 3
        /\ Len(h_ssn[h].transactions) = 1
        /\ h_txn[h] = NewTxn
        /\ LoadMutex # h

\* The step of command_run that sorts and normalizes a registry.
SortStep == m_pc = "load" /\ m_pc' \in {"pace", "shutdown"}

MinStart(list) ==
    CHOOSE t \in {list[k].start : k \in 1..Len(list)} :
        \A k \in 1..Len(list) : t <= list[k].start

\* C18: the sort-and-normalize step leaves a non-empty registry in
\* non-decreasing start order with ties in discovery order, the first start
\* 0 and every start its recorded start less the least recorded start, a
\* difference that is never negative (the unsigned subtraction does not
\* wrap); transaction_count is the sum of the sessions' transaction counts.
C18_SortedNormalized ==
    [][(SortStep /\ Session_List # <<>>) =>
          LET old == Session_List
              new == Session_List'
              n == Len(old)
          IN  /\ Len(new) = n
              /\ new[1].start = 0
              /\ \A j, k \in 1..n : j < k => new[j].start <= new[k].start
              /\ \E f \in {g \in [1..n -> 1..n] :
                              \A j, k \in 1..n : j # k => g[j] # g[k]} :
                    /\ \A k \in 1..n :
                          /\ new[k] = [old[f[k]] EXCEPT
                                         !.start = old[f[k]].start - MinStart(old)]
                          /\ new[k].start >= 0
                    /\ \A j, k \in 1..n :
                          (j < k /\ new[j].start = new[k].start) => f[j] < f[k]
              /\ transaction_count' = TransactionCount(old)]_vars

\* Two sessions that both started at 1 microsecond were sorted: both starts
\* are 0 and the HTTP2 session discovered first is still first; two
\* transactions were counted.
C18_Witness ==
    /\ m_pc = "pace"
    /\ Len(Session_List) = 2
    /\ Session_List[1].start = 0 /\ Session_List[2].start = 0
    /\ Session_List[1].is_h2 /\ ~Session_List[2].is_h2
    /\ Len(Session_List[2].transactions) = 1
    /\ transaction_count = 2

\* C17: the rate multiplier is 0 when --rate is absent or 0, and for a
\* nonzero rate and a non-empty registry it is the quotient
\* transaction_count * 1000000 / (rate * span), span the last normalized
\* start, a defined value for every non-empty registry (100 transactions
\* over 10000000 microseconds at rate 50 give 1/5).
C17_MultiplierDefined ==
    /\ RateMultiplier(<<50>>, <<[start |-> 10000000]>>, 100).num * 5
           = RateMultiplier(<<50>>, <<[start |-> 10000000]>>, 100).den
    /\ m_pc \in {"pace", "shutdown"} =>
          \/ rate_multiplier = Zero
          \/ LET span == Session_List[Len(Session_List)].start
             IN  /\ Session_List # <<>>
                 /\ rate_multiplier.den # 0
                 /\ rate_multiplier.num = transaction_count * 1000000
                 /\ \E rate \in {atoi(a) : a \in RateArgs \ {<<>>}} :
                        rate # 0 /\ rate_multiplier.den = rate * span

\* The steps of command_run that pace a session and that hand it on.
PaceStep == m_pc = "pace" /\ m_pc' # "pace"
AssignStep == m_pc = "assign" /\ m_pc' # "assign"

\* The session at the loop position has been paced and is about to be, or
\* is being, handed to a worker.
Paced == m_pc \in {"get_worker", "assign"}

\* C19: before a dispatch the scheduler sleeps at most once, only when the
\* scheduled time, firsttime plus the multiplier times the session's start,
\* is later than curtime, and then for the lesser of sleep_limit and the
\* time left; a session whose time has passed is not slept for, and after
\* the one sleep the session is dispatched, reached or not.
C19_BoundedSleep ==
    /\ [](Paced =>
            /\ rate_multiplier.den # 0 =>
                   nexttime = firsttime +
                       (rate_multiplier.num * Session_List[idx].start)
                           \div rate_multiplier.den
            /\ nexttime <= curtime => slept = 0
            /\ nexttime > curtime =>
                   /\ slept <= sleep_limit
                   /\ slept <= nexttime - curtime
                   /\ slept = sleep_limit \/ slept = nexttime - curtime
            /\ now = curtime + slept)
    /\ [][PaceStep => m_pc' = "get_worker" /\ idx' = idx /\ rep' = rep]_vars
    /\ [][~PaceStep => UNCHANGED <<now, curtime, nexttime, slept>>]_vars

\* A session is being handed to a worker after a sleep of sleep_limit that
\* ended before its scheduled time.
C19_Witness ==
    /\ m_pc = "assign"
    /\ thread_info # NULL
    /\ rate_multiplier.den # 0
    /\ slept = sleep_limit
    /\ now < nexttime

Running == {w \in Workers : w_pc[w] = "run"}

\* C13: an HTTP2-classified session is skipped exactly when --no-proxy was
\* given (no proxy is on the path): Run_Session then returns without
\* connecting and without running a transaction, and the worker goes back
\* to the head of its loop; with a proxy expected it is not skipped, and no
\* other session is ever skipped.
C13_SkipH2WithoutProxy ==
    /\ [](\A w \in Running :
            /\ Session_List[w_run[w].ssn].is_h2 =>
                   (w_run[w].runner = "skip" <=> Use_Proxy_Request_Directives)
            /\ ~Session_List[w_run[w].ssn].is_h2 => w_run[w].runner # "skip"
            /\ w_run[w].runner = "skip" =>
                   /\ ~w_run[w].connected
                   /\ ~w_run[w].ran
                   /\ w_run[w].list = "none")
    /\ [][\A w \in Running : w_pc'[w] \in {"run", "top"}]_vars

\* With --no-proxy a worker is inside Run_Session for an HTTP2 session that
\* is skipped, after it ran a session that was not.
C13_Witness ==
    /\ Use_Proxy_Request_Directives
    /\ n_ran > 1
    /\ n_http + n_https > 0
    /\ \E w \in Running :
          /\ Session_List[w_run[w].ssn].is_h2
          /\ w_run[w].runner = "skip"

\* C13 as stated: an HTTP2-classified session is skipped exactly when the
\* run mode expects a proxy on the path.
C13_SkipH2WithProxy ==
    \A w \in Running :
        Session_List[w_run[w].ssn].is_h2 =>
            (w_run[w].runner = "skip" <=> ~Use_Proxy_Request_Directives)

\* C14: a session that is not skipped gets the TLS runner with its SNI
\* against the HTTPS target when it is TLS-classified, else the HTTP2 runner
\* against the HTTPS target when it is HTTP2-classified, else the plain
\* runner against the HTTP target; run_transactions is called only after a
\* connect that succeeded.
C14_RunnerPrecedence ==
    \A w \in Running :
        LET ssn == Session_List[w_run[w].ssn]
            run == w_run[w]
        IN  run.runner # "skip" =>
                /\ ssn.is_tls =>
                       /\ run.runner = "tls"
                       /\ run.list = "https"
                       /\ run.sni = ssn.client_sni
                /\ (~ssn.is_tls /\ ssn.is_h2) =>
                       run.runner = "h2" /\ run.list = "https"
                /\ (~ssn.is_tls /\ ~ssn.is_h2) =>
                       run.runner = "plain" /\ run.list = "http"
                /\ run.ran => run.connected

\* C11: the k-th Run_Session that uses Target gets the endpoint at index
\* k mod its size, and the k-th that uses Target_Https the one at index
\* k mod its size, whichever workers run them and however the two kinds
\* are interleaved.
C11_RoundRobin ==
    \A w \in Running :
        /\ w_run[w].list = "http" => w_run[w].index = w_run[w].nth % Len(Target)
        /\ w_run[w].list = "https" =>
               w_run[w].index = w_run[w].nth % Len(Target_Https)

====
